---- MODULE Spec2Model ----
(***************************************************************************)
(* A model of the lock-free single-producer/single-consumer ring buffer    *)
(* SpscFifo2 (spsc_fifo_2.hpp), of the plain reference ring buffer Fifo    *)
(* (fifo.hpp), of SpscFifo0 (spsc_fifo_0.hpp), whose cursors are           *)
(* sequentially consistent atomics, and of SpscFifo1 (spsc_fifo_1.hpp),    *)
(* which is SpscFifo2 without the cached cursors.                          *)
(*                                                                         *)
(* Every access to memory shared by the two threads is one step.  The two  *)
(* cursors are atomics: a load of the cursor the other thread writes may   *)
(* return any value that cursor has held since the loading thread last     *)
(* observed it (coherence), and only an acquire load of a release store    *)
(* makes the writer's earlier slot accesses happen-before the reader's     *)
(* later ones.  A slot access that is not ordered after the other thread's *)
(* accesses to the same slot is a data race.                               *)
(***************************************************************************)
EXTENDS Integers, Sequences, FiniteSets

(* ------------------------------ bounds -------------------------------- *)

\* largest capacity a queue is constructed with
MaxCap == 3

\* number of successful pushes after which the driver calls push no more
MaxPush == 5

\* the pushed values are 1..MaxVal
MaxVal == 2

\* width of size_type in the model (64 in the build)
SizeBits == 3

\* number of values the two-thread driver transfers
BenchN == 3

(* ------------------------------ helpers ------------------------------- *)

Modulus == 2 ^ SizeBits

\* unsigned arithmetic of size_type
Wrap(x) == x % Modulus

Values == 1 .. MaxVal

\* the contents of storage that holds no constructed element
Raw == -1

RawSlot == [live |-> FALSE, val |-> Raw]

\* the cursors a, a+1, ..., b-1 (unsigned)
Between(a, b) == { Wrap(a + i) : i \in 0 .. (Wrap(b - a) - 1) }

\* the values a load may return of a cursor last observed at floor and now at cur
Visible(floor, cur) == { Wrap(floor + i) : i \in 0 .. Wrap(cur - floor) }

VARIABLES
    capacity_,          \* SpscFifo2::capacity_
    allocation_,        \* SpscFifo2::allocation_ : slot -> [live, val]
    push_pos_,          \* SpscFifo2::push_pos_ (atomic)
    pop_pos_,           \* SpscFifo2::pop_pos_ (atomic)
    push_pos_cached_,   \* SpscFifo2::push_pos_cached_ (consumer only)
    pop_pos_cached_,    \* SpscFifo2::pop_pos_cached_ (producer only)
    life,               \* "alive", "destroying", "freed", "crashed"
    ppc,                \* where the producer is inside push()
    push_pos,           \* push(): local push_pos
    pvalue,             \* push(): argument value
    pret,               \* result of the last push(): "none", "true", "false"
    cpc,                \* where the consumer is inside pop()
    pop_pos,            \* pop(): local pop_pos
    cvalue,             \* pop(): the caller's output variable
    cret,               \* result of the last pop()
    seenPop,            \* newest pop_pos_ value the producer has observed
    syncPop,            \* newest pop_pos_ store the producer has synchronized with
    seenPush,           \* newest push_pos_ value the consumer has observed
    syncPush,           \* newest push_pos_ store the consumer has synchronized with
    pushed,             \* history: values of the pushes that returned true
    popped,             \* history: values of the pops that returned true
    dtorLog,            \* history: cursors destroyed by ~SpscFifo2
    ub,                 \* history: lifetime errors and data races that happened
    fifo_push_pos_,     \* Fifo::push_pos_
    fifo_pop_pos_,      \* Fifo::pop_pos_
    fifo_allocation_,   \* Fifo::allocation_ : slot -> value
    fifo_pret,          \* result of the last Fifo::push
    fifo_cret,          \* result of the last Fifo::pop
    fifo_value,         \* Fifo::pop(): the caller's output variable
    fifo0,              \* SpscFifo0: allocation_, push_pos_, pop_pos_
    prod0,              \* SpscFifo0::push(): position, locals, argument, last result
    cons0,              \* SpscFifo0::pop(): position, locals, output variable, last result
    hist0,              \* history of the SpscFifo0: pushed, popped, ub
    psize,              \* SpscFifo2::getSize() called by the producer thread
    csize,              \* SpscFifo2::getSize() called by the consumer thread
    fifo1,              \* SpscFifo1: allocation_, push_pos_, pop_pos_
    prod1,              \* SpscFifo1::push(): position, locals, argument, last result
    cons1,              \* SpscFifo1::pop(): position, locals, output variable, last result
    hist1,              \* history of the SpscFifo1: pushed, popped, ub
    mode                \* how the three SpscFifos are run side by side, if they are

queueVars == <<capacity_, allocation_, push_pos_, pop_pos_, push_pos_cached_,
               pop_pos_cached_, life>>
prodVars == <<ppc, push_pos, pvalue, pret, seenPop, syncPop>>
consVars == <<cpc, pop_pos, cvalue, cret, seenPush, syncPush>>
histVars == <<pushed, popped, dtorLog, ub>>
fifoVars == <<fifo_push_pos_, fifo_pop_pos_, fifo_allocation_, fifo_pret, fifo_cret,
              fifo_value>>
spsc0Vars == <<fifo0, prod0, cons0, hist0>>
spsc2Vars == <<queueVars, prodVars, consVars, histVars>>
sizeVars == <<psize, csize>>
spsc1Vars == <<fifo1, prod1, cons1, hist1, mode>>
vars == <<spsc2Vars, fifoVars, spsc0Vars, spsc1Vars, sizeVars, spsc1Vars>>

(* --------------------------- memory orders ---------------------------- *)

PushLoadOwnOrder == "relaxed"
PushLoadPopOrder == "acquire"
\* faulty variant: the store of line 106 without release
PushStoreOrderRelaxed == "relaxed"
PushStoreOrder == "release"
PopLoadOwnOrder == "relaxed"
PopLoadPushOrder == "acquire"
\* faulty variant: the store of line 128 without release
PopStoreOrderRelaxed == "relaxed"
PopStoreOrder == "release"

\* a load synchronizes with the store it reads from
Synchronizes(storeOrder, loadOrder) ==
    /\ storeOrder \in {"release", "seq_cst"}
    /\ loadOrder \in {"acquire", "seq_cst"}

(* ------------------------------ SpscFifo2 ----------------------------- *)

\* faulty variant: a cursor that does not start at zero
InitPosOne == 0 + 1

\* the value std::atomic<size_type>'s default constructor gives (C++20)
InitPos == 0

\* faulty variant: a cached cursor that does not start at zero
InitCachedOne == 0 + 1

\* the value of the {} initializers of the cached cursors
InitCached == 0

Slot(cursor) == cursor % capacity_

getCapacity == capacity_

getSize == Wrap(push_pos_ - pop_pos_)

isEmpty == getSize = 0

isFull == getSize = capacity_

Ctor(capacity) ==
    /\ capacity_ = capacity
    /\ allocation_ = [s \in 0 .. (capacity - 1) |-> RawSlot]
    /\ push_pos_ = InitPos
    /\ pop_pos_ = InitPos
    /\ push_pos_cached_ = InitCached
    /\ pop_pos_cached_ = InitCached
    /\ life = "alive"

\* faulty variant: the full check off by one
PushIsFullOffByOne(pos, cached) == Wrap(pos - cached) = capacity_ + 1

\* faulty variant: the cached cursor never trusted
PushIsFullAlways(pos, cached) == TRUE

\* faulty variant: the difference taken in a wider, signed type
PushIsFullNoWrap(pos, cached) == pos - cached = capacity_

\* the condition of line 91
PushIsFull(pos, cached) == Wrap(pos - cached) = capacity_

\* faulty variant: failure without the re-check
PushRecheckAlways(pos, cached) == TRUE

\* the condition of line 95, after the cached cursor is refreshed
PushRecheckFull(pos, cached) == Wrap(pos - cached) = capacity_

\* faulty variant: the destructor call left out
AfterDestroyMissing(t) == t

\* the slot t after t.~T() (line 125)
AfterDestroy(t) == RawSlot

\* faulty variant: no empty check
PopIsEmptyNever(cached, pos) == FALSE

\* the condition of line 115
PopIsEmpty(cached, pos) == cached = pos

\* faulty variant: failure without the re-check
PopRecheckAlways(cached, pos) == TRUE

\* the condition of line 119, after the cached cursor is refreshed
PopRecheckEmpty(cached, pos) == cached = pos

\* faulty variants: the cursor advanced by two, or not at all
PushNextPosSkip(pos) == Wrap(pos + 2)
PushNextPosStuck(pos) == pos

\* the value line 106 stores to push_pos_
PushNextPos(pos) == Wrap(pos + 1)

\* faulty variant: the cursor advanced by two
PopNextPosSkip(pos) == Wrap(pos + 2)

\* the value line 128 stores to pop_pos_
PopNextPos(pos) == Wrap(pos + 1)

\* the cursors whose slot the consumer has accessed without the producer knowing
ConsumerUnordered ==
    Between(syncPop, pop_pos_) \cup (IF cpc \in {"destroy", "store"} THEN {pop_pos} ELSE {})

\* the cursors whose slot the producer has accessed without the consumer knowing
ProducerUnordered ==
    Between(syncPush, push_pos_) \cup (IF ppc = "store" THEN {push_pos} ELSE {})

\* push(value) is called.  The locals of a call are reset when it returns.
PushBegin(v) ==
    /\ life = "alive"
    /\ ppc = "idle"
    /\ ppc' = "load"
    /\ pvalue' = v
    /\ pret' = "none"
    /\ UNCHANGED <<push_pos, seenPop, syncPop>>
    /\ UNCHANGED <<queueVars, consVars, histVars>>

\* line 90-91
PushLoad ==
    /\ ppc = "load"
    /\ push_pos' = push_pos_
    /\ ppc' = IF PushIsFull(push_pos_, pop_pos_cached_) THEN "refresh" ELSE "construct"
    /\ UNCHANGED <<pvalue, pret, seenPop, syncPop>>
    /\ UNCHANGED <<queueVars, consVars, histVars>>

\* lines 94-96; seen is the value the load of pop_pos_ returns
PushRefresh(seen) ==
    /\ ppc = "refresh"
    /\ seen \in Visible(seenPop, pop_pos_)
    /\ pop_pos_cached_' = seen
    /\ seenPop' = seen
    /\ syncPop' = IF Synchronizes(PopStoreOrder, PushLoadPopOrder) THEN seen ELSE syncPop
    /\ IF PushRecheckFull(push_pos, seen)
          THEN /\ ppc' = "idle"
               /\ pret' = "false"
               /\ push_pos' = 0
               /\ pvalue' = Raw
          ELSE /\ ppc' = "construct"
               /\ UNCHANGED <<pret, push_pos, pvalue>>
    /\ UNCHANGED <<capacity_, allocation_, push_pos_, pop_pos_, push_pos_cached_, life>>
    /\ UNCHANGED <<consVars, histVars>>

\* line 103
PushConstruct ==
    /\ ppc = "construct"
    /\ IF capacity_ = 0
          THEN /\ life' = "crashed"
               /\ ub' = ub \cup {"modulo_by_zero"}
               /\ UNCHANGED <<allocation_, ppc>>
          ELSE /\ allocation_' = [allocation_ EXCEPT ![Slot(push_pos)] =
                                     [live |-> TRUE, val |-> pvalue]]
               /\ ub' = ub \cup (IF allocation_[Slot(push_pos)].live
                                    THEN {"construct_over_live"} ELSE {})
                           \cup (IF \E q \in ConsumerUnordered : Slot(q) = Slot(push_pos)
                                    THEN {"race"} ELSE {})
               /\ ppc' = "store"
               /\ UNCHANGED life
    /\ UNCHANGED <<capacity_, push_pos_, pop_pos_, push_pos_cached_, pop_pos_cached_>>
    /\ UNCHANGED <<push_pos, pvalue, pret, seenPop, syncPop>>
    /\ UNCHANGED <<consVars, pushed, popped, dtorLog>>

\* lines 106-108
PushStore ==
    /\ ppc = "store"
    /\ push_pos_' = PushNextPos(push_pos)
    /\ pushed' = Append(pushed, pvalue)
    /\ ppc' = "idle"
    /\ pret' = "true"
    /\ push_pos' = 0
    /\ pvalue' = Raw
    /\ UNCHANGED <<seenPop, syncPop>>
    /\ UNCHANGED <<capacity_, allocation_, pop_pos_, push_pos_cached_, pop_pos_cached_, life>>
    /\ UNCHANGED <<consVars, popped, dtorLog, ub>>

\* pop(value) is called; cvalue is the variable the caller passes
PopBegin ==
    /\ life = "alive"
    /\ cpc = "idle"
    /\ cpc' = "load"
    /\ cret' = "none"
    /\ UNCHANGED <<pop_pos, cvalue, seenPush, syncPush>>
    /\ UNCHANGED <<queueVars, prodVars, histVars>>

\* lines 114-115
PopLoad ==
    /\ cpc = "load"
    /\ pop_pos' = pop_pos_
    /\ cpc' = IF PopIsEmpty(push_pos_cached_, pop_pos_) THEN "refresh" ELSE "copy"
    /\ UNCHANGED <<cvalue, cret, seenPush, syncPush>>
    /\ UNCHANGED <<queueVars, prodVars, histVars>>

\* lines 118-120; seen is the value the load of push_pos_ returns
PopRefresh(seen) ==
    /\ cpc = "refresh"
    /\ seen \in Visible(seenPush, push_pos_)
    /\ push_pos_cached_' = seen
    /\ seenPush' = seen
    /\ syncPush' = IF Synchronizes(PushStoreOrder, PopLoadPushOrder) THEN seen ELSE syncPush
    /\ IF PopRecheckEmpty(seen, pop_pos)
          THEN /\ cpc' = "idle"
               /\ cret' = "false"
               /\ pop_pos' = 0
          ELSE /\ cpc' = "copy"
               /\ UNCHANGED <<cret, pop_pos>>
    /\ UNCHANGED cvalue
    /\ UNCHANGED <<capacity_, allocation_, push_pos_, pop_pos_, pop_pos_cached_, life>>
    /\ UNCHANGED <<prodVars, histVars>>

\* lines 123-124: value = t.  Reading a slot that holds no element, or one the
\* producer may be writing, is undefined: any value may come out.
PopCopy ==
    /\ cpc = "copy"
    /\ IF capacity_ = 0
          THEN /\ life' = "crashed"
               /\ ub' = ub \cup {"modulo_by_zero"}
               /\ UNCHANGED <<cvalue, cpc>>
          ELSE LET t == allocation_[Slot(pop_pos)]
                   racy == \E p \in ProducerUnordered : Slot(p) = Slot(pop_pos)
               IN  /\ IF t.live /\ ~racy
                         THEN cvalue' = t.val
                         ELSE cvalue' \in Values \cup {Raw}
                   /\ ub' = ub \cup (IF t.live THEN {} ELSE {"read_dead"})
                               \cup (IF racy THEN {"race"} ELSE {})
                   /\ cpc' = "destroy"
                   /\ UNCHANGED life
    /\ UNCHANGED <<capacity_, allocation_, push_pos_, pop_pos_, push_pos_cached_,
                   pop_pos_cached_>>
    /\ UNCHANGED <<pop_pos, cret, seenPush, syncPush>>
    /\ UNCHANGED <<prodVars, pushed, popped, dtorLog>>

\* line 125: t.~T()
PopDestroy ==
    /\ cpc = "destroy"
    /\ allocation_' = [allocation_ EXCEPT ![Slot(pop_pos)] = AfterDestroy(@)]
    /\ ub' = ub \cup (IF allocation_[Slot(pop_pos)].live THEN {} ELSE {"destroy_dead"})
                \cup (IF \E p \in ProducerUnordered : Slot(p) = Slot(pop_pos)
                         THEN {"race"} ELSE {})
    /\ cpc' = "store"
    /\ UNCHANGED <<capacity_, push_pos_, pop_pos_, push_pos_cached_, pop_pos_cached_, life>>
    /\ UNCHANGED <<pop_pos, cvalue, cret, seenPush, syncPush>>
    /\ UNCHANGED <<prodVars, pushed, popped, dtorLog>>

\* lines 128-130
PopStore ==
    /\ cpc = "store"
    /\ pop_pos_' = PopNextPos(pop_pos)
    /\ popped' = Append(popped, cvalue)
    /\ cpc' = "idle"
    /\ cret' = "true"
    /\ pop_pos' = 0
    /\ UNCHANGED <<cvalue, seenPush, syncPush>>
    /\ UNCHANGED <<capacity_, allocation_, push_pos_, push_pos_cached_, pop_pos_cached_, life>>
    /\ UNCHANGED <<prodVars, pushed, dtorLog, ub>>

\* faulty variant: the destructor indexing with the wrong cursor
DtorCursorPush == push_pos_

\* the cursor whose element one turn of the destructor's loop destroys (line 64)
DtorCursor == pop_pos_

\* lines 62-66: one turn of the loop.  The destructor runs with no call in flight.
DtorLoop ==
    /\ life \in {"alive", "destroying"}
    /\ ppc = "idle" /\ cpc = "idle"
    /\ ~isEmpty
    /\ IF capacity_ = 0
          THEN /\ life' = "crashed"
               /\ ub' = ub \cup {"modulo_by_zero"}
               /\ UNCHANGED <<allocation_, pop_pos_, dtorLog>>
          ELSE /\ life' = "destroying"
               /\ allocation_' = [allocation_ EXCEPT ![Slot(DtorCursor)] = RawSlot]
               /\ ub' = ub \cup (IF allocation_[Slot(DtorCursor)].live
                                    THEN {} ELSE {"destroy_dead"})
               /\ dtorLog' = Append(dtorLog, DtorCursor)
               /\ pop_pos_' = Wrap(pop_pos_ + 1)
    /\ UNCHANGED <<capacity_, push_pos_, push_pos_cached_, pop_pos_cached_>>
    /\ UNCHANGED <<prodVars, consVars, pushed, popped>>

\* lines 62, 67: the loop ends and the buffer is released
DtorFree ==
    /\ life \in {"alive", "destroying"}
    /\ ppc = "idle" /\ cpc = "idle"
    /\ isEmpty
    /\ life' = "freed"
    /\ UNCHANGED <<capacity_, allocation_, push_pos_, pop_pos_, push_pos_cached_,
                   pop_pos_cached_>>
    /\ UNCHANGED <<prodVars, consVars, histVars>>

(* -------------------------------- Fifo -------------------------------- *)

FifoSlot(cursor) == cursor % capacity_

FifoGetSize == Wrap(fifo_push_pos_ - fifo_pop_pos_)

FifoIsEmpty == FifoGetSize = 0

FifoIsFull == FifoGetSize = capacity_

\* the Fifo of the same capacity, its cursors holding pushPos and popPos
FifoCtor(pushPos, popPos) ==
    /\ fifo_push_pos_ = pushPos
    /\ fifo_pop_pos_ = popPos
    /\ fifo_allocation_ = [s \in 0 .. (capacity_ - 1) |-> Raw]
    /\ fifo_pret = "none"
    /\ fifo_cret = "none"
    /\ fifo_value = Raw

\* Fifo::push, a whole call
FifoPush(v) ==
    /\ IF FifoIsFull
          THEN /\ fifo_pret' = "false"
               /\ UNCHANGED <<fifo_push_pos_, fifo_allocation_>>
          ELSE /\ fifo_allocation_' =
                     [fifo_allocation_ EXCEPT ![FifoSlot(fifo_push_pos_)] = v]
               /\ fifo_push_pos_' = Wrap(fifo_push_pos_ + 1)
               /\ fifo_pret' = "true"
    /\ UNCHANGED <<fifo_pop_pos_, fifo_cret, fifo_value>>

\* Fifo::pop, a whole call
FifoPop ==
    /\ IF FifoIsEmpty
          THEN /\ fifo_cret' = "false"
               /\ UNCHANGED <<fifo_pop_pos_, fifo_allocation_, fifo_value>>
          ELSE /\ fifo_value' = fifo_allocation_[FifoSlot(fifo_pop_pos_)]
               /\ fifo_allocation_' =
                     [fifo_allocation_ EXCEPT ![FifoSlot(fifo_pop_pos_)] = Raw]
               /\ fifo_pop_pos_' = Wrap(fifo_pop_pos_ + 1)
               /\ fifo_cret' = "true"
    /\ UNCHANGED <<fifo_push_pos_, fifo_pret>>

(* ------------------------------ SpscFifo0 ----------------------------- *)

\* Every access to a cursor of SpscFifo0 is a sequentially consistent atomic
\* operation (std::atomic's conversion and operator++), so each is one step and
\* reads the cursor's latest value.

Spsc0Slot(cursor) == cursor % capacity_

\* line 60, of the two values loaded
Spsc0GetSize(pushPos, popPos) == Wrap(pushPos - popPos)

\* line 62
Spsc0IsEmpty(size) == size = 0

\* faulty variant: the full check off by one
Spsc0IsFullOffByOne(size) == size = capacity_ + 1

\* line 64
Spsc0IsFull(size) == size = capacity_

\* the SpscFifo0 of the same capacity, and the two threads that use it
Spsc0Ctor ==
    /\ fifo0 = [allocation_ |-> [s \in 0 .. (capacity_ - 1) |-> RawSlot],
                push_pos_ |-> InitPos,
                pop_pos_ |-> InitPos]
    /\ prod0 = [pc |-> "idle", push_pos |-> 0, pop_pos |-> 0, slot |-> 0,
                value |-> Raw, ret |-> "none"]
    /\ cons0 = [pc |-> "idle", push_pos |-> 0, pop_pos |-> 0, slot |-> 0,
                value |-> Raw, ret |-> "none"]
    /\ hist0 = [pushed |-> <<>>, popped |-> <<>>, ub |-> {}]

\* a call's locals when it returns r
Spsc0Return(t, r) ==
    [t EXCEPT !.pc = "idle", !.push_pos = 0, !.pop_pos = 0, !.slot = 0, !.ret = r]

\* push(value) is called
Push0Begin(v) ==
    /\ prod0.pc = "idle"
    /\ prod0' = [prod0 EXCEPT !.pc = "size", !.value = v, !.ret = "none"]
    /\ UNCHANGED <<fifo0, cons0, hist0>>

\* lines 68, 64, 60: both operands of getSize() are loaded; full or not
Push0Check(pushPos, popPos) ==
    IF Spsc0IsFull(Spsc0GetSize(pushPos, popPos))
       THEN prod0' = [Spsc0Return(prod0, "false") EXCEPT !.value = Raw]
       ELSE prod0' = [prod0 EXCEPT !.pc = "index", !.push_pos = 0, !.pop_pos = 0]

\* line 60: the load of push_pos_; the operands of '-' are loaded in either order
Push0LoadPush ==
    /\ prod0.pc \in {"size", "size_push"}
    /\ IF prod0.pc = "size"
          THEN prod0' = [prod0 EXCEPT !.pc = "size_pop", !.push_pos = fifo0.push_pos_]
          ELSE Push0Check(fifo0.push_pos_, prod0.pop_pos)
    /\ UNCHANGED <<fifo0, cons0, hist0>>

\* line 60: the load of pop_pos_
Push0LoadPop ==
    /\ prod0.pc \in {"size", "size_pop"}
    /\ IF prod0.pc = "size"
          THEN prod0' = [prod0 EXCEPT !.pc = "size_push", !.pop_pos = fifo0.pop_pos_]
          ELSE Push0Check(prod0.push_pos, fifo0.pop_pos_)
    /\ UNCHANGED <<fifo0, cons0, hist0>>

\* line 76: push_pos_ is loaded again for the slot index
Push0Index ==
    /\ prod0.pc = "index"
    /\ IF capacity_ = 0
          THEN /\ prod0' = [prod0 EXCEPT !.pc = "crashed"]
               /\ hist0' = [hist0 EXCEPT !.ub = @ \cup {"modulo_by_zero"}]
          ELSE /\ prod0' = [prod0 EXCEPT !.pc = "construct",
                                         !.slot = Spsc0Slot(fifo0.push_pos_)]
               /\ UNCHANGED hist0
    /\ UNCHANGED <<fifo0, cons0>>

\* line 76: the element is constructed
Push0Construct ==
    /\ prod0.pc = "construct"
    /\ fifo0' = [fifo0 EXCEPT !.allocation_[prod0.slot] =
                                  [live |-> TRUE, val |-> prod0.value]]
    /\ hist0' = [hist0 EXCEPT !.ub = @ \cup
                    (IF fifo0.allocation_[prod0.slot].live
                        THEN {"construct_over_live"} ELSE {})]
    /\ prod0' = [prod0 EXCEPT !.pc = "inc"]
    /\ UNCHANGED cons0

\* lines 77-78: ++push_pos_, one atomic read-modify-write
Push0Inc ==
    /\ prod0.pc = "inc"
    /\ fifo0' = [fifo0 EXCEPT !.push_pos_ = Wrap(@ + 1)]
    /\ hist0' = [hist0 EXCEPT !.pushed = Append(@, prod0.value)]
    /\ prod0' = [Spsc0Return(prod0, "true") EXCEPT !.value = Raw]
    /\ UNCHANGED cons0

\* pop(value) is called; cons0.value is the variable the caller passes
Pop0Begin ==
    /\ cons0.pc = "idle"
    /\ cons0' = [cons0 EXCEPT !.pc = "size", !.ret = "none"]
    /\ UNCHANGED <<fifo0, prod0, hist0>>

\* lines 82, 62, 60: both operands of getSize() are loaded; empty or not
Pop0Check(pushPos, popPos) ==
    IF Spsc0IsEmpty(Spsc0GetSize(pushPos, popPos))
       THEN cons0' = Spsc0Return(cons0, "false")
       ELSE cons0' = [cons0 EXCEPT !.pc = "index", !.push_pos = 0, !.pop_pos = 0]

\* line 60: the load of push_pos_
Pop0LoadPush ==
    /\ cons0.pc \in {"size", "size_push"}
    /\ IF cons0.pc = "size"
          THEN cons0' = [cons0 EXCEPT !.pc = "size_pop", !.push_pos = fifo0.push_pos_]
          ELSE Pop0Check(fifo0.push_pos_, cons0.pop_pos)
    /\ UNCHANGED <<fifo0, prod0, hist0>>

\* line 60: the load of pop_pos_
Pop0LoadPop ==
    /\ cons0.pc \in {"size", "size_pop"}
    /\ IF cons0.pc = "size"
          THEN cons0' = [cons0 EXCEPT !.pc = "size_push", !.pop_pos = fifo0.pop_pos_]
          ELSE Pop0Check(cons0.push_pos, fifo0.pop_pos_)
    /\ UNCHANGED <<fifo0, prod0, hist0>>

\* line 85: pop_pos_ is loaded again for the slot index
Pop0Index ==
    /\ cons0.pc = "index"
    /\ IF capacity_ = 0
          THEN /\ cons0' = [cons0 EXCEPT !.pc = "crashed"]
               /\ hist0' = [hist0 EXCEPT !.ub = @ \cup {"modulo_by_zero"}]
          ELSE /\ cons0' = [cons0 EXCEPT !.pc = "copy",
                                         !.slot = Spsc0Slot(fifo0.pop_pos_)]
               /\ UNCHANGED hist0
    /\ UNCHANGED <<fifo0, prod0>>

\* line 86: value = t.  Reading a slot that holds no element, or one the
\* producer is constructing into, is undefined: any value may come out.
Pop0Copy ==
    /\ cons0.pc = "copy"
    /\ LET t == fifo0.allocation_[cons0.slot]
           racy == prod0.pc = "construct" /\ prod0.slot = cons0.slot
       IN  /\ \E v \in (IF t.live /\ ~racy THEN {t.val} ELSE Values \cup {Raw}) :
                  cons0' = [cons0 EXCEPT !.pc = "destroy", !.value = v]
           /\ hist0' = [hist0 EXCEPT !.ub = @ \cup
                           (IF t.live THEN {} ELSE {"read_dead"}) \cup
                           (IF racy THEN {"race"} ELSE {})]
    /\ UNCHANGED <<fifo0, prod0>>

\* line 87: t.~T()
Pop0Destroy ==
    /\ cons0.pc = "destroy"
    /\ fifo0' = [fifo0 EXCEPT !.allocation_[cons0.slot] = RawSlot]
    /\ hist0' = [hist0 EXCEPT !.ub = @ \cup
                    (IF fifo0.allocation_[cons0.slot].live THEN {} ELSE {"destroy_dead"})
                    \cup (IF prod0.pc = "construct" /\ prod0.slot = cons0.slot
                             THEN {"race"} ELSE {})]
    /\ cons0' = [cons0 EXCEPT !.pc = "inc"]
    /\ UNCHANGED prod0

\* lines 89-90: ++pop_pos_, one atomic read-modify-write
Pop0Inc ==
    /\ cons0.pc = "inc"
    /\ fifo0' = [fifo0 EXCEPT !.pop_pos_ = Wrap(@ + 1)]
    /\ hist0' = [hist0 EXCEPT !.popped = Append(@, cons0.value)]
    /\ cons0' = Spsc0Return(cons0, "true")
    /\ UNCHANGED prod0

(* ------------------------------ SpscFifo1 ----------------------------- *)

\* SpscFifo1 is SpscFifo2 without the cached cursors: every call loads the
\* other thread's cursor.  The loads and stores are as in SpscFifo2: a load of
\* the other thread's cursor returns any value not older than the last one the
\* loading thread observed.

Push1LoadOwnOrder == "relaxed"
Push1LoadPopOrder == "acquire"
Push1StoreOrder == "release"
Pop1LoadPushOrder == "acquire"
Pop1LoadOwnOrder == "relaxed"
Pop1StoreOrder == "release"

Spsc1Slot(cursor) == cursor % capacity_

\* faulty variant: the full check off by one
Push1IsFullOffByOne(pushPos, popPos) == Wrap(pushPos - popPos) = capacity_ + 1

\* the condition of line 121
Push1IsFull(pushPos, popPos) == Wrap(pushPos - popPos) = capacity_

\* the condition of line 143
Pop1IsEmpty(pushPos, popPos) == pushPos = popPos

\* the SpscFifo1 of the same capacity, and the two threads that use it
Spsc1Ctor ==
    /\ fifo1 = [allocation_ |-> [s \in 0 .. (capacity_ - 1) |-> RawSlot],
                push_pos_ |-> InitPos,
                pop_pos_ |-> InitPos]
    /\ prod1 = [pc |-> "idle", push_pos |-> 0, pop_pos |-> 0, value |-> Raw,
                ret |-> "none", seen |-> InitPos, sync |-> InitPos]
    /\ cons1 = [pc |-> "idle", push_pos |-> 0, pop_pos |-> 0, value |-> Raw,
                ret |-> "none", seen |-> InitPos, sync |-> InitPos]
    /\ hist1 = [pushed |-> <<>>, popped |-> <<>>, ub |-> {}]

\* the cursors whose slot the consumer has accessed without the producer knowing
Consumer1Unordered ==
    Between(prod1.sync, fifo1.pop_pos_)
        \cup (IF cons1.pc \in {"destroy", "store"} THEN {cons1.pop_pos} ELSE {})

\* the cursors whose slot the producer has accessed without the consumer knowing
Producer1Unordered ==
    Between(cons1.sync, fifo1.push_pos_)
        \cup (IF prod1.pc = "store" THEN {prod1.push_pos} ELSE {})

\* push(value) is called
Push1Begin(v) ==
    /\ prod1.pc = "idle"
    /\ prod1' = [prod1 EXCEPT !.pc = "load_own", !.value = v, !.ret = "none"]
    /\ UNCHANGED <<fifo1, cons1, hist1>>

\* line 116
Push1LoadOwn ==
    /\ prod1.pc = "load_own"
    /\ prod1' = [prod1 EXCEPT !.pc = "load_pop", !.push_pos = fifo1.push_pos_]
    /\ UNCHANGED <<fifo1, cons1, hist1>>

\* lines 119-122; seen is the value the load of pop_pos_ returns
Push1LoadPop(seen) ==
    /\ prod1.pc = "load_pop"
    /\ seen \in Visible(prod1.seen, fifo1.pop_pos_)
    /\ LET sync == IF Synchronizes(Pop1StoreOrder, Push1LoadPopOrder)
                      THEN seen ELSE prod1.sync
       IN  IF Push1IsFull(prod1.push_pos, seen)
              THEN prod1' = [prod1 EXCEPT !.pc = "idle", !.ret = "false",
                                          !.push_pos = 0, !.pop_pos = 0, !.value = Raw,
                                          !.seen = seen, !.sync = sync]
              ELSE prod1' = [prod1 EXCEPT !.pc = "construct", !.pop_pos = seen,
                                          !.seen = seen, !.sync = sync]
    /\ UNCHANGED <<fifo1, cons1, hist1>>

\* line 128
Push1Construct ==
    /\ prod1.pc = "construct"
    /\ IF capacity_ = 0
          THEN /\ prod1' = [prod1 EXCEPT !.pc = "crashed"]
               /\ hist1' = [hist1 EXCEPT !.ub = @ \cup {"modulo_by_zero"}]
               /\ UNCHANGED fifo1
          ELSE LET s == Spsc1Slot(prod1.push_pos)
               IN  /\ fifo1' = [fifo1 EXCEPT !.allocation_[s] =
                                                 [live |-> TRUE, val |-> prod1.value]]
                   /\ hist1' = [hist1 EXCEPT !.ub = @ \cup
                                   (IF fifo1.allocation_[s].live
                                       THEN {"construct_over_live"} ELSE {}) \cup
                                   (IF \E q \in Consumer1Unordered : Spsc1Slot(q) = s
                                       THEN {"race"} ELSE {})]
                   /\ prod1' = [prod1 EXCEPT !.pc = "store"]
    /\ UNCHANGED cons1

\* lines 131-133
Push1Store ==
    /\ prod1.pc = "store"
    /\ fifo1' = [fifo1 EXCEPT !.push_pos_ = Wrap(prod1.push_pos + 1)]
    /\ hist1' = [hist1 EXCEPT !.pushed = Append(@, prod1.value)]
    /\ prod1' = [prod1 EXCEPT !.pc = "idle", !.ret = "true", !.push_pos = 0,
                              !.pop_pos = 0, !.value = Raw]
    /\ UNCHANGED cons1

\* pop(value) is called; cons1.value is the variable the caller passes
Pop1Begin ==
    /\ cons1.pc = "idle"
    /\ cons1' = [cons1 EXCEPT !.pc = "load_push", !.ret = "none"]
    /\ UNCHANGED <<fifo1, prod1, hist1>>

\* line 139; seen is the value the load of push_pos_ returns
Pop1LoadPush(seen) ==
    /\ cons1.pc = "load_push"
    /\ seen \in Visible(cons1.seen, fifo1.push_pos_)
    /\ cons1' = [cons1 EXCEPT !.pc = "load_own", !.push_pos = seen, !.seen = seen,
                              !.sync = IF Synchronizes(Push1StoreOrder, Pop1LoadPushOrder)
                                          THEN seen ELSE @]
    /\ UNCHANGED <<fifo1, prod1, hist1>>

\* lines 142-144
Pop1LoadOwn ==
    /\ cons1.pc = "load_own"
    /\ IF Pop1IsEmpty(cons1.push_pos, fifo1.pop_pos_)
          THEN cons1' = [cons1 EXCEPT !.pc = "idle", !.ret = "false",
                                      !.push_pos = 0, !.pop_pos = 0]
          ELSE cons1' = [cons1 EXCEPT !.pc = "copy", !.pop_pos = fifo1.pop_pos_]
    /\ UNCHANGED <<fifo1, prod1, hist1>>

\* lines 146-147: value = t.  Reading a slot that holds no element, or one the
\* producer may be writing, is undefined: any value may come out.
Pop1Copy ==
    /\ cons1.pc = "copy"
    /\ IF capacity_ = 0
          THEN /\ cons1' = [cons1 EXCEPT !.pc = "crashed"]
               /\ hist1' = [hist1 EXCEPT !.ub = @ \cup {"modulo_by_zero"}]
          ELSE LET t == fifo1.allocation_[Spsc1Slot(cons1.pop_pos)]
                   racy == \E p \in Producer1Unordered :
                               Spsc1Slot(p) = Spsc1Slot(cons1.pop_pos)
               IN  /\ \E v \in (IF t.live /\ ~racy THEN {t.val} ELSE Values \cup {Raw}) :
                          cons1' = [cons1 EXCEPT !.pc = "destroy", !.value = v]
                   /\ hist1' = [hist1 EXCEPT !.ub = @ \cup
                                   (IF t.live THEN {} ELSE {"read_dead"}) \cup
                                   (IF racy THEN {"race"} ELSE {})]
    /\ UNCHANGED <<fifo1, prod1>>

\* line 148: t.~T()
Pop1Destroy ==
    /\ cons1.pc = "destroy"
    /\ LET s == Spsc1Slot(cons1.pop_pos)
       IN  /\ fifo1' = [fifo1 EXCEPT !.allocation_[s] = RawSlot]
           /\ hist1' = [hist1 EXCEPT !.ub = @ \cup
                           (IF fifo1.allocation_[s].live THEN {} ELSE {"destroy_dead"}) \cup
                           (IF \E p \in Producer1Unordered : Spsc1Slot(p) = s
                               THEN {"race"} ELSE {})]
    /\ cons1' = [cons1 EXCEPT !.pc = "store"]
    /\ UNCHANGED prod1

\* lines 151-153
Pop1Store ==
    /\ cons1.pc = "store"
    /\ fifo1' = [fifo1 EXCEPT !.pop_pos_ = Wrap(cons1.pop_pos + 1)]
    /\ hist1' = [hist1 EXCEPT !.popped = Append(@, cons1.value)]
    /\ cons1' = [cons1 EXCEPT !.pc = "idle", !.ret = "true", !.push_pos = 0,
                              !.pop_pos = 0]
    /\ UNCHANGED prod1

(* ------------------------- the two-thread program --------------------- *)

\* both threads start after the queue is constructed
ThreadsInit ==
    /\ ppc = "idle" /\ push_pos = 0 /\ pvalue = Raw /\ pret = "none"
    /\ cpc = "idle" /\ pop_pos = 0 /\ cvalue = Raw /\ cret = "none"
    /\ seenPop = InitPos /\ syncPop = InitPos
    /\ seenPush = InitPos /\ syncPush = InitPos
    /\ pushed = <<>> /\ popped = <<>> /\ dtorLog = <<>> /\ ub = {}

Init ==
    /\ \E capacity \in 0 .. MaxCap : Ctor(capacity)
    /\ ThreadsInit
    /\ FifoCtor(0, 0)
    /\ Spsc0Ctor
    /\ psize = [pc |-> "idle", push_pos |-> 0, start |-> 0, ret |-> Raw]
    /\ csize = [pc |-> "idle", push_pos |-> 0, start |-> 0, ret |-> Raw]
    /\ Spsc1Ctor
    /\ mode = "apart"

\* the value a load returns is one of size_type's
Cursors == 0 .. (Modulus - 1)

Next ==
    \/ \E v \in Values : Len(pushed) < MaxPush /\ PushBegin(v) /\ UNCHANGED <<fifoVars, spsc0Vars, spsc1Vars, sizeVars>>
    \/ PushLoad /\ UNCHANGED <<fifoVars, spsc0Vars, spsc1Vars, sizeVars>>
    \/ \E seen \in Cursors : PushRefresh(seen) /\ UNCHANGED <<fifoVars, spsc0Vars, spsc1Vars, sizeVars>>
    \/ PushConstruct /\ UNCHANGED <<fifoVars, spsc0Vars, spsc1Vars, sizeVars>>
    \/ PushStore /\ UNCHANGED <<fifoVars, spsc0Vars, spsc1Vars, sizeVars>>
    \/ PopBegin /\ UNCHANGED <<fifoVars, spsc0Vars, spsc1Vars, sizeVars>>
    \/ PopLoad /\ UNCHANGED <<fifoVars, spsc0Vars, spsc1Vars, sizeVars>>
    \/ \E seen \in Cursors : PopRefresh(seen) /\ UNCHANGED <<fifoVars, spsc0Vars, spsc1Vars, sizeVars>>
    \/ PopCopy /\ UNCHANGED <<fifoVars, spsc0Vars, spsc1Vars, sizeVars>>
    \/ PopDestroy /\ UNCHANGED <<fifoVars, spsc0Vars, spsc1Vars, sizeVars>>
    \/ PopStore /\ UNCHANGED <<fifoVars, spsc0Vars, spsc1Vars, sizeVars>>
    \/ DtorLoop /\ UNCHANGED <<fifoVars, spsc0Vars, spsc1Vars, sizeVars>>
    \/ DtorFree /\ UNCHANGED <<fifoVars, spsc0Vars, spsc1Vars, sizeVars>>

Spec == Init /\ [][Next]_vars

(* ------------------------ the one-thread program ---------------------- *)

\* One thread calls push and pop, one call at a time, each call made on the
\* SpscFifo2 and on a Fifo of the same capacity whose cursors start at zero.
\* The thread's loads return what it stored last.
SeqNext ==
    \/ \E v \in Values :
          Len(pushed) < MaxPush /\ cpc = "idle" /\ PushBegin(v) /\ FifoPush(v)
          /\ UNCHANGED <<spsc0Vars, sizeVars, spsc1Vars>>
    \/ PushLoad /\ UNCHANGED <<fifoVars, spsc0Vars, spsc1Vars, sizeVars>>
    \/ PushRefresh(pop_pos_) /\ UNCHANGED <<fifoVars, spsc0Vars, spsc1Vars, sizeVars>>
    \/ PushConstruct /\ UNCHANGED <<fifoVars, spsc0Vars, spsc1Vars, sizeVars>>
    \/ PushStore /\ UNCHANGED <<fifoVars, spsc0Vars, spsc1Vars, sizeVars>>
    \/ ppc = "idle" /\ PopBegin /\ FifoPop /\ UNCHANGED <<spsc0Vars, sizeVars, spsc1Vars>>
    \/ PopLoad /\ UNCHANGED <<fifoVars, spsc0Vars, spsc1Vars, sizeVars>>
    \/ PopRefresh(push_pos_) /\ UNCHANGED <<fifoVars, spsc0Vars, spsc1Vars, sizeVars>>
    \/ PopCopy /\ UNCHANGED <<fifoVars, spsc0Vars, spsc1Vars, sizeVars>>
    \/ PopDestroy /\ UNCHANGED <<fifoVars, spsc0Vars, spsc1Vars, sizeVars>>
    \/ PopStore /\ UNCHANGED <<fifoVars, spsc0Vars, spsc1Vars, sizeVars>>

SeqSpec == Init /\ [][SeqNext]_vars

(* ---------------------- two threads on a SpscFifo0 -------------------- *)

Spsc0Next ==
    \/ \E v \in Values :
          Len(hist0.pushed) < MaxPush /\ Push0Begin(v) /\ UNCHANGED <<spsc2Vars, fifoVars, sizeVars, spsc1Vars>>
    \/ Push0LoadPush /\ UNCHANGED <<spsc2Vars, fifoVars, sizeVars, spsc1Vars>>
    \/ Push0LoadPop /\ UNCHANGED <<spsc2Vars, fifoVars, sizeVars, spsc1Vars>>
    \/ Push0Index /\ UNCHANGED <<spsc2Vars, fifoVars, sizeVars, spsc1Vars>>
    \/ Push0Construct /\ UNCHANGED <<spsc2Vars, fifoVars, sizeVars, spsc1Vars>>
    \/ Push0Inc /\ UNCHANGED <<spsc2Vars, fifoVars, sizeVars, spsc1Vars>>
    \/ Pop0Begin /\ UNCHANGED <<spsc2Vars, fifoVars, sizeVars, spsc1Vars>>
    \/ Pop0LoadPush /\ UNCHANGED <<spsc2Vars, fifoVars, sizeVars, spsc1Vars>>
    \/ Pop0LoadPop /\ UNCHANGED <<spsc2Vars, fifoVars, sizeVars, spsc1Vars>>
    \/ Pop0Index /\ UNCHANGED <<spsc2Vars, fifoVars, sizeVars, spsc1Vars>>
    \/ Pop0Copy /\ UNCHANGED <<spsc2Vars, fifoVars, sizeVars, spsc1Vars>>
    \/ Pop0Destroy /\ UNCHANGED <<spsc2Vars, fifoVars, sizeVars, spsc1Vars>>
    \/ Pop0Inc /\ UNCHANGED <<spsc2Vars, fifoVars, sizeVars, spsc1Vars>>

Spsc0Spec == Init /\ [][Spsc0Next]_vars

(* --------------------- getSize() called by a thread ------------------- *)

\* the order of the loads of lines 78 and 79
SizeLoadOrder == "relaxed"

\* faulty variant: the operands of line 80 exchanged
SizeOfSwapped(pushPos, popPos) == Wrap(popPos - pushPos)

\* line 80, of the two values loaded
SizeOf(pushPos, popPos) == Wrap(pushPos - popPos)

\* no call of getSize() made yet, or its result used up
NoSize == [pc |-> "idle", push_pos |-> 0, start |-> 0, ret |-> Raw]

\* the producer thread calls getSize() between two of its pushes; start notes
\* what pop_pos_ is when the call begins
PSizeBegin ==
    /\ life = "alive"
    /\ ppc = "idle"
    /\ psize.pc = "idle"
    /\ psize' = [pc |-> "load_push", push_pos |-> 0, start |-> pop_pos_, ret |-> Raw]
    /\ UNCHANGED <<spsc2Vars, csize>>

\* line 78, by the producer: its own cursor
PSizeLoadPush ==
    /\ psize.pc = "load_push"
    /\ psize' = [psize EXCEPT !.pc = "load_pop", !.push_pos = push_pos_]
    /\ UNCHANGED <<spsc2Vars, csize>>

\* lines 79-80, by the producer; seen is the value the load of pop_pos_ returns
PSizeLoadPop(seen) ==
    /\ psize.pc = "load_pop"
    /\ seen \in Visible(seenPop, pop_pos_)
    /\ seenPop' = seen
    /\ syncPop' = IF Synchronizes(PopStoreOrder, SizeLoadOrder) THEN seen ELSE syncPop
    /\ psize' = [NoSize EXCEPT !.ret = SizeOf(psize.push_pos, seen)]
    /\ UNCHANGED <<ppc, push_pos, pvalue, pret>>
    /\ UNCHANGED <<queueVars, consVars, histVars, csize>>

\* the consumer thread calls getSize() between two of its pops; start notes
\* what push_pos_ is when the call begins
CSizeBegin ==
    /\ life = "alive"
    /\ cpc = "idle"
    /\ csize.pc = "idle"
    /\ csize' = [pc |-> "load_push", push_pos |-> 0, start |-> push_pos_, ret |-> Raw]
    /\ UNCHANGED <<spsc2Vars, psize>>

\* line 78, by the consumer; seen is the value the load of push_pos_ returns
CSizeLoadPush(seen) ==
    /\ csize.pc = "load_push"
    /\ seen \in Visible(seenPush, push_pos_)
    /\ seenPush' = seen
    /\ syncPush' = IF Synchronizes(PushStoreOrder, SizeLoadOrder) THEN seen ELSE syncPush
    /\ csize' = [csize EXCEPT !.pc = "load_pop", !.push_pos = seen]
    /\ UNCHANGED <<cpc, pop_pos, cvalue, cret>>
    /\ UNCHANGED <<queueVars, prodVars, histVars, psize>>

\* lines 79-80, by the consumer: its own cursor
CSizeLoadPop ==
    /\ csize.pc = "load_pop"
    /\ csize' = [NoSize EXCEPT !.ret = SizeOf(csize.push_pos, pop_pos_)]
    /\ UNCHANGED <<spsc2Vars, psize>>

\* a thread's last getSize() result is about the queue before that thread's
\* next push or pop: it is dropped when that call returns
AfterCall(size, pc) == IF pc = "idle" THEN NoSize ELSE size

\* Each thread calls getSize() (and with it isEmpty() and isFull()) between
\* its calls of push or pop, in every interleaving with the other thread.
SizeNext ==
    \/ Len(pushed) < MaxPush /\ psize.pc = "idle" /\ PushBegin(Len(pushed))
          /\ UNCHANGED <<fifoVars, spsc0Vars, spsc1Vars, sizeVars>>
    \/ PushLoad /\ UNCHANGED <<fifoVars, spsc0Vars, spsc1Vars, sizeVars>>
    \/ \E seen \in Cursors : PushRefresh(seen) /\ psize' = AfterCall(psize, ppc')
          /\ UNCHANGED <<fifoVars, spsc0Vars, spsc1Vars, csize>>
    \/ PushConstruct /\ UNCHANGED <<fifoVars, spsc0Vars, spsc1Vars, sizeVars>>
    \/ PushStore /\ psize' = AfterCall(psize, ppc')
          /\ UNCHANGED <<fifoVars, spsc0Vars, spsc1Vars, csize>>
    \/ csize.pc = "idle" /\ PopBegin /\ UNCHANGED <<fifoVars, spsc0Vars, spsc1Vars, sizeVars>>
    \/ PopLoad /\ UNCHANGED <<fifoVars, spsc0Vars, spsc1Vars, sizeVars>>
    \/ \E seen \in Cursors : PopRefresh(seen) /\ csize' = AfterCall(csize, cpc')
          /\ UNCHANGED <<fifoVars, spsc0Vars, spsc1Vars, psize>>
    \/ PopCopy /\ UNCHANGED <<fifoVars, spsc0Vars, spsc1Vars, sizeVars>>
    \/ PopDestroy /\ UNCHANGED <<fifoVars, spsc0Vars, spsc1Vars, sizeVars>>
    \/ PopStore /\ csize' = AfterCall(csize, cpc')
          /\ UNCHANGED <<fifoVars, spsc0Vars, spsc1Vars, psize>>
    \/ PSizeBegin /\ UNCHANGED <<fifoVars, spsc0Vars, spsc1Vars>>
    \/ PSizeLoadPush /\ UNCHANGED <<fifoVars, spsc0Vars, spsc1Vars>>
    \/ \E seen \in Cursors : PSizeLoadPop(seen) /\ UNCHANGED <<fifoVars, spsc0Vars, spsc1Vars>>
    \/ CSizeBegin /\ UNCHANGED <<fifoVars, spsc0Vars, spsc1Vars>>
    \/ \E seen \in Cursors : CSizeLoadPush(seen) /\ UNCHANGED <<fifoVars, spsc0Vars, spsc1Vars>>
    \/ CSizeLoadPop /\ UNCHANGED <<fifoVars, spsc0Vars, spsc1Vars>>

SizeSpec == Init /\ [][SizeNext]_vars

(* --------------------------- a Fifo on its own ------------------------ *)

\* Fifo's constructor (lines 207-211) initializes capacity_ and allocation_
\* only: push_pos_ and pop_pos_ (lines 266-267) have no initializer, so their
\* values after construction are indeterminate, any pair of size_type values.
FifoInit ==
    /\ \E capacity \in 1 .. MaxCap : Ctor(capacity)
    /\ ThreadsInit
    /\ \E pushPos, popPos \in Cursors : FifoCtor(pushPos, popPos)
    /\ Spsc0Ctor
    /\ psize = [pc |-> "idle", push_pos |-> 0, start |-> 0, ret |-> Raw]
    /\ csize = [pc |-> "idle", push_pos |-> 0, start |-> 0, ret |-> Raw]
    /\ Spsc1Ctor
    /\ mode = "apart"

\* one thread calls push and pop on the Fifo
FifoNext ==
    \/ \E v \in Values : FifoPush(v) /\ UNCHANGED <<spsc2Vars, spsc0Vars, sizeVars, spsc1Vars>>
    \/ FifoPop /\ UNCHANGED <<spsc2Vars, spsc0Vars, sizeVars, spsc1Vars>>

FifoSpec == FifoInit /\ [][FifoNext]_vars

(* ------------------ two threads, past the cursors' wrap --------------- *)

\* pushes enough for push_pos_ to pass 2^SizeBits - 1 and start again from 0
WrapN == Modulus + 2

\* The producer pushes 0, 1, 2, ... (each value tells its cursor), the consumer
\* pops, in every interleaving, until WrapN pushes have returned true.
WrapNext ==
    \/ Len(pushed) < WrapN /\ PushBegin(Len(pushed)) /\ UNCHANGED <<fifoVars, spsc0Vars, spsc1Vars, sizeVars>>
    \/ PushLoad /\ UNCHANGED <<fifoVars, spsc0Vars, spsc1Vars, sizeVars>>
    \/ \E seen \in Cursors : PushRefresh(seen) /\ UNCHANGED <<fifoVars, spsc0Vars, spsc1Vars, sizeVars>>
    \/ PushConstruct /\ UNCHANGED <<fifoVars, spsc0Vars, spsc1Vars, sizeVars>>
    \/ PushStore /\ UNCHANGED <<fifoVars, spsc0Vars, spsc1Vars, sizeVars>>
    \/ PopBegin /\ UNCHANGED <<fifoVars, spsc0Vars, spsc1Vars, sizeVars>>
    \/ PopLoad /\ UNCHANGED <<fifoVars, spsc0Vars, spsc1Vars, sizeVars>>
    \/ \E seen \in Cursors : PopRefresh(seen) /\ UNCHANGED <<fifoVars, spsc0Vars, spsc1Vars, sizeVars>>
    \/ PopCopy /\ UNCHANGED <<fifoVars, spsc0Vars, spsc1Vars, sizeVars>>
    \/ PopDestroy /\ UNCHANGED <<fifoVars, spsc0Vars, spsc1Vars, sizeVars>>
    \/ PopStore /\ UNCHANGED <<fifoVars, spsc0Vars, spsc1Vars, sizeVars>>

WrapSpec == Init /\ [][WrapNext]_vars

(* ------------------------- the two-thread driver ---------------------- *)

BenchInit ==
    /\ \E capacity \in 1 .. MaxCap : Ctor(capacity)
    /\ ThreadsInit
    /\ FifoCtor(0, 0)
    /\ Spsc0Ctor
    /\ psize = [pc |-> "idle", push_pos |-> 0, start |-> 0, ret |-> Raw]
    /\ csize = [pc |-> "idle", push_pos |-> 0, start |-> 0, ret |-> Raw]
    /\ Spsc1Ctor
    /\ mode = "apart"

\* the producer pushes 0, 1, ..., BenchN-1, each again until push returns true
BenchPush == Len(pushed) < BenchN /\ PushBegin(Len(pushed)) /\ UNCHANGED <<fifoVars, spsc0Vars, spsc1Vars, sizeVars>>

\* the consumer pops until it has collected BenchN values
BenchPop == Len(popped) < BenchN /\ PopBegin /\ UNCHANGED <<fifoVars, spsc0Vars, spsc1Vars, sizeVars>>

BenchProducer ==
    \/ BenchPush
    \/ PushLoad /\ UNCHANGED <<fifoVars, spsc0Vars, spsc1Vars, sizeVars>>
    \/ \E seen \in Cursors : PushRefresh(seen) /\ UNCHANGED <<fifoVars, spsc0Vars, spsc1Vars, sizeVars>>
    \/ PushConstruct /\ UNCHANGED <<fifoVars, spsc0Vars, spsc1Vars, sizeVars>>
    \/ PushStore /\ UNCHANGED <<fifoVars, spsc0Vars, spsc1Vars, sizeVars>>

BenchConsumer ==
    \/ BenchPop
    \/ PopLoad /\ UNCHANGED <<fifoVars, spsc0Vars, spsc1Vars, sizeVars>>
    \/ \E seen \in Cursors : PopRefresh(seen) /\ UNCHANGED <<fifoVars, spsc0Vars, spsc1Vars, sizeVars>>
    \/ PopCopy /\ UNCHANGED <<fifoVars, spsc0Vars, spsc1Vars, sizeVars>>
    \/ PopDestroy /\ UNCHANGED <<fifoVars, spsc0Vars, spsc1Vars, sizeVars>>
    \/ PopStore /\ UNCHANGED <<fifoVars, spsc0Vars, spsc1Vars, sizeVars>>

BenchNext == BenchProducer \/ BenchConsumer

\* Both threads keep running (weak fairness of each), and a store to a cursor
\* becomes visible to the other thread's loads in finite time: a thread that
\* keeps loading a cursor does not read an old value of it forever.  Without
\* the second part a thread could spin on a stale cursor for ever.
BenchFair ==
    /\ WF_vars(BenchProducer)
    /\ WF_vars(BenchConsumer)
    /\ SF_vars(PushRefresh(pop_pos_) /\ UNCHANGED <<fifoVars, spsc0Vars, spsc1Vars, sizeVars>>)
    /\ SF_vars(PopRefresh(push_pos_) /\ UNCHANGED <<fifoVars, spsc0Vars, spsc1Vars, sizeVars>>)

BenchSpec == BenchInit /\ [][BenchNext]_vars /\ BenchFair

(* ------------- SpscFifo1 and SpscFifo2 (and SpscFifo0) side by side ---------- *)

\* One producer and one consumer drive a SpscFifo1 and a SpscFifo2 of the same
\* capacity with the same calls under the same schedule.  Each step of a thread
\* is one step of its call on either queue: SpscFifo2's load of the other
\* thread's cursor (when it makes one) and SpscFifo1's happen in the same step.
\*   "spsc1_leads": SpscFifo1's load returns any value it may return, and
\*                  SpscFifo2's load, when it makes one, returns the same value;
\*   "spsc2_leads": SpscFifo2's load returns any value it may return, and
\*                  SpscFifo1's load returns the value SpscFifo2 goes on with;
\*   "single":      one thread makes all the calls, one at a time, on the two
\*                  queues and on a SpscFifo0; every load returns the current value.
\* pushes accepted by each queue in the side-by-side program
EquivPush == 4

Modes == {"spsc1_leads", "spsc2_leads", "single"}

EquivInit ==
    /\ \E capacity \in 0 .. MaxCap : Ctor(capacity)
    /\ ThreadsInit
    /\ FifoCtor(0, 0)
    /\ Spsc0Ctor
    /\ psize = NoSize
    /\ csize = NoSize
    /\ Spsc1Ctor
    /\ mode \in Modes

\* no call is in progress on any of the three queues
BetweenCalls ==
    /\ ppc = "idle" /\ cpc = "idle"
    /\ prod1.pc = "idle" /\ cons1.pc = "idle"
    /\ prod0.pc = "idle" /\ cons0.pc = "idle"

\* the values the two loads of one step return: v1 by SpscFifo1's, v2 by
\* SpscFifo2's (v2 is the cached value when SpscFifo2 makes no load)
Coupled(v1, v2, loads, cur1, cur2) ==
    CASE mode = "spsc1_leads" -> loads => v2 = v1
      [] mode = "spsc2_leads" -> v1 = v2
      [] OTHER -> v1 = cur1 /\ (loads => v2 = cur2)

EquivPushBegin(v) ==
    /\ mode = "single" => BetweenCalls
    /\ PushBegin(v)
    /\ Push1Begin(v)
    /\ IF mode = "single" THEN Push0Begin(v) ELSE UNCHANGED spsc0Vars
    /\ UNCHANGED <<fifoVars, sizeVars, mode>>

EquivPushLoad ==
    /\ PushLoad
    /\ Push1LoadOwn
    /\ UNCHANGED <<fifoVars, spsc0Vars, sizeVars, mode>>

EquivPushCheck ==
    /\ ppc \in {"refresh", "construct"}
    /\ \E v1 \in Visible(prod1.seen, fifo1.pop_pos_) :
          /\ Push1LoadPop(v1)
          /\ IF ppc = "refresh"
                THEN \E v2 \in Visible(seenPop, pop_pos_) :
                        /\ Coupled(v1, v2, TRUE, fifo1.pop_pos_, pop_pos_)
                        /\ PushRefresh(v2)
                ELSE /\ Coupled(v1, pop_pos_cached_, FALSE, fifo1.pop_pos_, pop_pos_)
                     /\ UNCHANGED spsc2Vars
    /\ UNCHANGED <<fifoVars, spsc0Vars, sizeVars, mode>>

EquivPushConstruct ==
    /\ PushConstruct
    /\ Push1Construct
    /\ UNCHANGED <<fifoVars, spsc0Vars, sizeVars, mode>>

EquivPushStore ==
    /\ PushStore
    /\ Push1Store
    /\ UNCHANGED <<fifoVars, spsc0Vars, sizeVars, mode>>

EquivPopBegin ==
    /\ mode = "single" => BetweenCalls
    /\ PopBegin
    /\ Pop1Begin
    /\ IF mode = "single" THEN Pop0Begin ELSE UNCHANGED spsc0Vars
    /\ UNCHANGED <<fifoVars, sizeVars, mode>>

\* SpscFifo2's load of its own cursor and its test of the cached cursor
EquivPopLoad ==
    /\ PopLoad
    /\ UNCHANGED <<fifoVars, spsc0Vars, sizeVars, spsc1Vars>>

EquivPopCheck ==
    /\ cpc \in {"refresh", "copy"}
    /\ \E v1 \in Visible(cons1.seen, fifo1.push_pos_) :
          /\ Pop1LoadPush(v1)
          /\ IF cpc = "refresh"
                THEN \E v2 \in Visible(seenPush, push_pos_) :
                        /\ Coupled(v1, v2, TRUE, fifo1.push_pos_, push_pos_)
                        /\ PopRefresh(v2)
                ELSE /\ Coupled(v1, push_pos_cached_, FALSE, fifo1.push_pos_, push_pos_)
                     /\ UNCHANGED spsc2Vars
    /\ UNCHANGED <<fifoVars, spsc0Vars, sizeVars, mode>>

\* SpscFifo1's load of its own cursor and its test
EquivPopOwn ==
    /\ Pop1LoadOwn
    /\ UNCHANGED <<spsc2Vars, fifoVars, spsc0Vars, sizeVars, mode>>

EquivPopCopy ==
    /\ PopCopy
    /\ Pop1Copy
    /\ UNCHANGED <<fifoVars, spsc0Vars, sizeVars, mode>>

EquivPopDestroy ==
    /\ PopDestroy
    /\ Pop1Destroy
    /\ UNCHANGED <<fifoVars, spsc0Vars, sizeVars, mode>>

EquivPopStore ==
    /\ PopStore
    /\ Pop1Store
    /\ UNCHANGED <<fifoVars, spsc0Vars, sizeVars, mode>>

EquivNext ==
    \/ \E v \in Values : Len(pushed) < EquivPush /\ EquivPushBegin(v)
    \/ EquivPushLoad
    \/ EquivPushCheck
    \/ EquivPushConstruct
    \/ EquivPushStore
    \/ EquivPopBegin
    \/ EquivPopLoad
    \/ EquivPopCheck
    \/ EquivPopOwn
    \/ EquivPopCopy
    \/ EquivPopDestroy
    \/ EquivPopStore
    \/ Push0LoadPush /\ UNCHANGED <<spsc2Vars, fifoVars, sizeVars, spsc1Vars>>
    \/ Push0LoadPop /\ UNCHANGED <<spsc2Vars, fifoVars, sizeVars, spsc1Vars>>
    \/ Push0Index /\ UNCHANGED <<spsc2Vars, fifoVars, sizeVars, spsc1Vars>>
    \/ Push0Construct /\ UNCHANGED <<spsc2Vars, fifoVars, sizeVars, spsc1Vars>>
    \/ Push0Inc /\ UNCHANGED <<spsc2Vars, fifoVars, sizeVars, spsc1Vars>>
    \/ Pop0LoadPush /\ UNCHANGED <<spsc2Vars, fifoVars, sizeVars, spsc1Vars>>
    \/ Pop0LoadPop /\ UNCHANGED <<spsc2Vars, fifoVars, sizeVars, spsc1Vars>>
    \/ Pop0Index /\ UNCHANGED <<spsc2Vars, fifoVars, sizeVars, spsc1Vars>>
    \/ Pop0Copy /\ UNCHANGED <<spsc2Vars, fifoVars, sizeVars, spsc1Vars>>
    \/ Pop0Destroy /\ UNCHANGED <<spsc2Vars, fifoVars, sizeVars, spsc1Vars>>
    \/ Pop0Inc /\ UNCHANGED <<spsc2Vars, fifoVars, sizeVars, spsc1Vars>>

EquivSpec == EquivInit /\ [][EquivNext]_vars

(* ------------------------------- claims -------------------------------- *)

\* the cursors of the elements pushed and not yet destroyed
Unconsumed ==
    Between(pop_pos_, push_pos_) \ (IF cpc = "store" THEN {pop_pos} ELSE {})

LiveSlots == { s \in DOMAIN allocation_ : allocation_[s].live }

\* C1: with one producer and one consumer, under every interleaving of their
\* steps, the values returned by the successful pops are at all times a prefix
\* of the values passed to the successful pushes.
C1_FifoOrder ==
    /\ Len(popped) <= Len(pushed)
    /\ popped = SubSeq(pushed, 1, Len(popped))

\* three values went through a queue whose slots were reused, the threads overlapping
C1_Witness ==
    /\ Len(popped) = 3
    /\ popped[1] # popped[2]
    /\ capacity_ = 2
    /\ ppc = "store"
    /\ cret = "true"

\* C2: in every reachable state the occupied count push_pos_ - pop_pos_ is at
\* least 0 and at most capacity_ (the cursors as integers: they have not wrapped).
C2_OccupiedBound ==
    /\ 0 <= push_pos_ - pop_pos_
    /\ push_pos_ - pop_pos_ <= capacity_

\* the queue is full again after elements were removed, a pop in flight
C2_Witness ==
    /\ capacity_ = 2
    /\ pop_pos_ = 2
    /\ push_pos_ - pop_pos_ = capacity_
    /\ cpc = "copy"

\* C3: push constructs only into a slot that holds no live element, pop reads
\* and destroys only a slot that holds a live element, the live slots are
\* exactly those of the elements pushed and not yet destroyed, and each still
\* holds the value that was pushed.
C3_SlotLifetime ==
    /\ ub \cap {"construct_over_live", "read_dead", "destroy_dead"} = {}
    /\ Cardinality(LiveSlots) =
          Cardinality(Unconsumed) + (IF ppc = "store" THEN 1 ELSE 0)
    /\ \A k \in Unconsumed :
          /\ allocation_[Slot(k)].live
          /\ allocation_[Slot(k)].val = pushed[k + 1]

\* every slot is in its second use and the next element is being constructed
C3_Witness ==
    /\ capacity_ = 2
    /\ push_pos_ = 3
    /\ pop_pos_ = 2
    /\ ppc = "store"
    /\ Cardinality(LiveSlots) = 2
    /\ ub = {}

\* a step of the producer that is not part of constructing and publishing
PushCheckStep ==
    /\ ppc' # ppc
    /\ ppc \notin {"construct", "store"}
    /\ ppc' \notin {"construct", "store"}

\* a step of the consumer that is not part of copying, destroying and publishing
PopCheckStep ==
    /\ cpc' # cpc
    /\ cpc \notin {"copy", "destroy", "store"}
    /\ cpc' \notin {"copy", "destroy", "store"}

\* C4: a push that returns false changes nothing: every step of such a call
\* leaves push_pos_, pop_pos_, the slots and the value of pop_pos_cached_ as
\* they were; every step of a pop that returns false leaves push_pos_,
\* pop_pos_, the slots, the value of push_pos_cached_ and the caller's output
\* variable as they were.
C4_FailedCallChangesNothing ==
    [][ /\ PushCheckStep =>
              UNCHANGED <<push_pos_, pop_pos_, allocation_, pop_pos_cached_>>
        /\ PopCheckStep =>
              UNCHANGED <<push_pos_, pop_pos_, allocation_, push_pos_cached_, cvalue>>
      ]_vars

\* a push has failed on a full queue and a pop has failed on an empty one
C4_Witness ==
    /\ pret = "false"
    /\ cret = "false"
    /\ Len(popped) = 2
    /\ capacity_ = 2

\* both driver threads have finished
BenchDone ==
    /\ ppc = "idle" /\ cpc = "idle"
    /\ Len(pushed) = BenchN
    /\ Len(popped) = BenchN

\* C5: the producer retrying push(i) for i = 0..BenchN-1 and the consumer
\* retrying pop until it holds BenchN values always finish, and when they have,
\* the consumer holds 0, 1, ..., BenchN-1 in that order and the queue is empty.
C5_BenchTerminates ==
    /\ <>BenchDone
    /\ [](BenchDone => /\ popped = [i \in 1 .. BenchN |-> i - 1]
                       /\ isEmpty
                       /\ LiveSlots = {})

\* the driver has finished on a queue of capacity 1 after a push and a pop failed
C5_Witness ==
    /\ BenchDone
    /\ capacity_ = 1
    /\ popped = [i \in 1 .. BenchN |-> i - 1]
    /\ isEmpty

\* C6: with no call in flight (and the queue not being destroyed), push_pos_ is
\* the number of pushes that returned true, pop_pos_ the number of pops that
\* returned true, and getSize() their difference.
C6_Conservation ==
    (ppc = "idle" /\ cpc = "idle" /\ life = "alive") =>
        /\ push_pos_ = Len(pushed)
        /\ pop_pos_ = Len(popped)
        /\ getSize = Len(pushed) - Len(popped)

\* three pushes and one pop returned true, and the last push returned false
C6_Witness ==
    /\ ppc = "idle" /\ cpc = "idle" /\ life = "alive"
    /\ capacity_ = 2
    /\ Len(pushed) = 3
    /\ Len(popped) = 1
    /\ pret = "false"
    /\ cret = "true"

\* C7: with release stores and acquire loads only, no slot access races: the
\* consumer has synchronized with the store that published the element it reads
\* and reads the value constructed for that cursor; the producer has
\* synchronized with the store that published the destruction of the element
\* that last used the slot it constructs into, which holds no element then; and
\* no load of the other thread's cursor is relaxed.
C7_ReleaseAcquire ==
    /\ "race" \notin ub
    /\ PushLoadPopOrder # "relaxed"
    /\ PopLoadPushOrder # "relaxed"
    /\ cpc \in {"copy", "destroy", "store"} =>
          /\ Wrap(syncPush - pop_pos) \in 1 .. capacity_
          /\ pop_pos < Len(pushed)
    /\ cpc \in {"destroy", "store"} =>
          /\ pop_pos < Len(pushed)
          /\ cvalue = pushed[pop_pos + 1]
    /\ ppc \in {"construct", "store"} =>
          /\ Wrap(push_pos - syncPop) < capacity_
          /\ "construct_over_live" \notin ub
    /\ ppc = "construct" => ~allocation_[Slot(push_pos)].live

\* the consumer has read an element from a slot in its second use while the
\* producer, having seen that slot's first element destroyed, constructs the next
C7_Witness ==
    /\ capacity_ = 2
    /\ cpc = "destroy"
    /\ pop_pos = 2
    /\ cvalue = pushed[3]
    /\ ppc = "store"
    /\ push_pos = 3
    /\ syncPop = 2
    /\ syncPush = 3

\* the cursors the destructor has to destroy, in the order it has to
DtorExpected ==
    [i \in 1 .. (Len(pushed) - Len(popped)) |-> Wrap(Len(popped) + i - 1)]

\* C8: destroyed with no call in flight, the queue's destructor destroys the
\* elements at cursors pop_pos_ .. push_pos_-1, each once and in increasing
\* order, and only then releases the buffer; no element is live afterwards and
\* none was destroyed twice.
C8_DtorDestroysRemaining ==
    /\ life = "destroying" =>
          /\ Len(dtorLog) <= Len(DtorExpected)
          /\ dtorLog = SubSeq(DtorExpected, 1, Len(dtorLog))
    /\ life = "freed" =>
          /\ dtorLog = DtorExpected
          /\ LiveSlots = {}
          /\ "destroy_dead" \notin ub
    /\ life \in {"alive", "crashed"} => dtorLog = <<>>

\* three elements pushed, one popped, and the destructor destroyed the other two
C8_Witness ==
    /\ life = "freed"
    /\ capacity_ = 2
    /\ Len(pushed) = 3
    /\ Len(popped) = 1
    /\ dtorLog = <<1, 2>>

\* C9: used from one thread, SpscFifo2 and a Fifo of the same capacity, both
\* starting with their cursors at zero, agree after every call: the same
\* result, the same popped value, the same getSize(), isEmpty() and isFull().
C9_SingleThreadEquivalence ==
    /\ ppc = "idle" => pret = fifo_pret
    /\ cpc = "idle" => /\ cret = fifo_cret
                       /\ cvalue = fifo_value
    /\ (ppc = "idle" /\ cpc = "idle") =>
          /\ getSize = FifoGetSize
          /\ isEmpty <=> FifoIsEmpty
          /\ isFull <=> FifoIsFull
          /\ \A s \in DOMAIN allocation_ : allocation_[s].val = fifo_allocation_[s]

\* the queue was filled, one more element went through it, it was drained, and
\* the last push and the last pop both failed
C9_Witness ==
    /\ ppc = "idle" /\ cpc = "idle"
    /\ capacity_ = 2
    /\ Len(pushed) = 3
    /\ Len(popped) = 3
    /\ pret = "false" /\ fifo_pret = "false"
    /\ cret = "false" /\ fifo_cret = "false"
    /\ cvalue = pushed[3]

\* no call has been made on the queue
Fresh == ppc = "idle" /\ cpc = "idle" /\ pret = "none" /\ cret = "none"

\* C10: right after construction with capacity c >= 1 the four cursors are
\* zero and no slot holds an element, so getSize() is 0, isEmpty() holds and
\* isFull() does not; a first pop fails; and of the pushes made before any pop,
\* exactly the first c succeed.
C10_FreshQueue ==
    capacity_ >= 1 =>
        /\ Fresh =>
              /\ push_pos_ = 0 /\ pop_pos_ = 0
              /\ push_pos_cached_ = 0 /\ pop_pos_cached_ = 0
              /\ LiveSlots = {}
              /\ getSize = 0 /\ isEmpty /\ ~isFull
              /\ getCapacity = Cardinality(DOMAIN allocation_)
        /\ (pushed = <<>> /\ cpc = "idle" /\ cret # "none") => cret = "false"
        /\ (cret = "none" /\ cpc = "idle" /\ ppc = "idle") =>
              /\ pret = "true" => Len(pushed) <= capacity_
              /\ pret = "false" => Len(pushed) = capacity_

\* two pushes succeeded on a new queue of capacity 2 and the third failed
C10_Witness ==
    /\ capacity_ = 2
    /\ cret = "none" /\ cpc = "idle" /\ ppc = "idle"
    /\ pret = "false"
    /\ Len(pushed) = 2
    /\ isFull

\* C11: a queue of capacity 0 is refused when it is constructed: no call of
\* push or pop ever completes on a live queue whose capacity_ is 0.
C11_ZeroCapacityRefused ==
    ~ /\ capacity_ = 0
      /\ life = "alive"
      /\ (pret # "none" \/ cret # "none")

\* a step the producer can take inside push(), whatever the consumer does
ProducerStep ==
    \/ PushLoad
    \/ \E seen \in Cursors : PushRefresh(seen)
    \/ PushConstruct
    \/ PushStore

\* a step the consumer can take inside pop(), whatever the producer does
ConsumerStep ==
    \/ PopLoad
    \/ \E seen \in Cursors : PopRefresh(seen)
    \/ PopCopy
    \/ PopDestroy
    \/ PopStore

\* how far a call of push() has come
PushRank(pc) ==
    CASE pc = "idle" -> 0
      [] pc = "load" -> 1
      [] pc = "refresh" -> 2
      [] pc = "construct" -> 3
      [] pc = "store" -> 4

\* how far a call of pop() has come
PopRank(pc) ==
    CASE pc = "idle" -> 0
      [] pc = "load" -> 1
      [] pc = "refresh" -> 2
      [] pc = "copy" -> 3
      [] pc = "destroy" -> 4
      [] pc = "store" -> 5

\* C12: push() and pop() do not block and do not loop.  A call in flight can
\* always take its next step, wherever the other thread stands; every step
\* takes the call strictly forward or ends it with the result true or false, so
\* a call ends within four (push) or five (pop) steps of its own; the other
\* thread's cursor is loaded in one step only, which a call takes at most once,
\* and only when the cached cursor says full (push) or empty (pop).
C12_NonBlocking ==
    /\ [](ppc # "idle" => ENABLED ProducerStep)
    /\ [](cpc # "idle" => ENABLED ConsumerStep)
    /\ [](ppc = "refresh" => Wrap(push_pos - pop_pos_cached_) = capacity_)
    /\ [](cpc = "refresh" => push_pos_cached_ = pop_pos)
    /\ [][ /\ ppc' # ppc =>
                 \/ PushRank(ppc') > PushRank(ppc)
                 \/ ppc' = "idle" /\ pret' \in {"true", "false"}
           /\ cpc' # cpc =>
                 \/ PopRank(cpc') > PopRank(cpc)
                 \/ cpc' = "idle" /\ cret' \in {"true", "false"}
           /\ <<pop_pos_cached_, seenPop, syncPop>>' # <<pop_pos_cached_, seenPop, syncPop>>
                 => ppc = "refresh" /\ ppc' # "refresh"
           /\ <<push_pos_cached_, seenPush, syncPush>>' # <<push_pos_cached_, seenPush, syncPush>>
                 => cpc = "refresh" /\ cpc' # "refresh"
         ]_vars

\* a push loaded pop_pos_ and returned false while the consumer stood still
\* in the middle of its second pop
C12_Witness ==
    /\ capacity_ = 1
    /\ pret = "false"
    /\ ppc = "idle"
    /\ cpc = "destroy"
    /\ Len(popped) = 1

\* the cursors of the SpscFifo0's elements pushed and not yet destroyed
Unconsumed0 ==
    Between(fifo0.pop_pos_, fifo0.push_pos_)
        \ (IF cons0.pc = "inc" THEN {fifo0.pop_pos_} ELSE {})

\* C13: with one producer and one consumer on a SpscFifo0, every atomic access
\* a step of its own, under every interleaving: 0 <= push_pos_ - pop_pos_ <=
\* capacity_; no slot is constructed over a live element, read or destroyed
\* while it holds none, or accessed by both threads at once; every element
\* pushed and not yet consumed is still in its slot with the value pushed; and
\* the popped values are a prefix of the pushed values.
C13_Spsc0Safe ==
    /\ 0 <= fifo0.push_pos_ - fifo0.pop_pos_
    /\ fifo0.push_pos_ - fifo0.pop_pos_ <= capacity_
    /\ hist0.ub = {}
    /\ ~ /\ prod0.pc = "construct"
         /\ cons0.pc \in {"copy", "destroy"}
         /\ prod0.slot = cons0.slot
    /\ \A k \in Unconsumed0 :
          /\ fifo0.allocation_[Spsc0Slot(k)].live
          /\ fifo0.allocation_[Spsc0Slot(k)].val = hist0.pushed[k + 1]
    /\ Len(hist0.popped) <= Len(hist0.pushed)
    /\ hist0.popped = SubSeq(hist0.pushed, 1, Len(hist0.popped))

\* the consumer is destroying the third element while the producer, which saw
\* the queue of capacity 2 not full, constructs the fourth
C13_Witness ==
    /\ capacity_ = 2
    /\ Len(hist0.popped) = 2
    /\ Len(hist0.pushed) = 3
    /\ cons0.pc = "destroy"
    /\ prod0.pc = "construct"
    /\ hist0.popped[1] # hist0.popped[2]

\* C14: a cached cursor is never ahead of its real cursor and never decreases
\* (cursors below the wrap of size_type): pop_pos_cached_ <= pop_pos_ and
\* push_pos_cached_ <= push_pos_ and neither is negative, so that each is a
\* value its real cursor has held; and no step, a refresh included, replaces a
\* cached cursor by a smaller value.
C14_CachedBehind ==
    /\ [](0 <= pop_pos_cached_ /\ pop_pos_cached_ <= pop_pos_)
    /\ [](0 <= push_pos_cached_ /\ push_pos_cached_ <= push_pos_)
    /\ [][ /\ pop_pos_cached_' >= pop_pos_cached_
           /\ push_pos_cached_' >= push_pos_cached_
         ]_vars

\* both cached cursors have been refreshed and both lag behind again
C14_Witness ==
    /\ capacity_ = 2
    /\ pop_pos_cached_ = 1
    /\ pop_pos_ = 2
    /\ push_pos_cached_ = 2
    /\ push_pos_ = 3

\* C15: the equality tests are enough (cursors below the wrap).  At the start
\* of every push 0 <= push_pos_ - pop_pos_cached_ <= capacity_ and at the start
\* of every pop 0 <= push_pos_cached_ - pop_pos_ <= capacity_; and a push that
\* passed its test has push_pos - pop_pos_cached_ < capacity_, a pop that
\* passed its test has pop_pos < push_pos_cached_.
C15_EqualityTestsSuffice ==
    /\ ppc = "load" =>
          /\ 0 <= push_pos_ - pop_pos_cached_
          /\ push_pos_ - pop_pos_cached_ <= capacity_
    /\ cpc = "load" =>
          /\ 0 <= push_pos_cached_ - pop_pos_
          /\ push_pos_cached_ - pop_pos_ <= capacity_
    /\ ppc \in {"construct", "store"} =>
          /\ 0 <= push_pos - pop_pos_cached_
          /\ push_pos - pop_pos_cached_ < capacity_
    /\ cpc \in {"copy", "destroy", "store"} =>
          /\ pop_pos < push_pos_cached_
          /\ push_pos_cached_ - pop_pos <= capacity_

\* a push starts with the cached cursor saying full and a pop starts with the
\* cached cursor saying empty, after both cursors have moved
C15_Witness ==
    /\ capacity_ = 2
    /\ ppc = "load"
    /\ cpc = "load"
    /\ push_pos_ - pop_pos_cached_ = capacity_
    /\ push_pos_cached_ - pop_pos_ = 0
    /\ pop_pos_ = 2

\* C17: the two threads never work on the same slot at once: in no reachable
\* state is the producer between deciding to construct into a slot and storing
\* push_pos_ while the consumer is between deciding to read that same slot and
\* storing pop_pos_.
C17_NoSharedSlot ==
    ~ /\ ppc \in {"construct", "store"}
      /\ cpc \in {"copy", "destroy", "store"}
      /\ Slot(push_pos) = Slot(pop_pos)

\* the consumer destroys the element in slot 1 while the producer has
\* constructed the next element in slot 0, which the consumer freed before
C17_Witness ==
    /\ capacity_ = 2
    /\ ppc = "store"
    /\ push_pos = 2
    /\ cpc = "destroy"
    /\ pop_pos = 1
    /\ Slot(push_pos) # Slot(pop_pos)

\* the step in which push() returns false
PushFails == ppc = "refresh" /\ ppc' = "idle"

\* the step in which pop() returns false
PopFails == cpc = "refresh" /\ cpc' = "idle"

\* the step in which push() passes its full check, at once or after the refresh
PushGoesOn == ppc \in {"load", "refresh"} /\ ppc' = "construct"

\* the step in which pop() passes its empty check, at once or after the refresh
PopGoesOn == cpc \in {"load", "refresh"} /\ cpc' = "copy"

C18_SlotsCycleAcrossWrap ==
    /\ (ppc \in {"construct", "store"} /\ capacity_ >= 1 /\ Len(pushed) >= 1) =>
          Slot(push_pos) = (Slot(Wrap(push_pos - 1)) + 1) % capacity_
    /\ (cpc \in {"copy", "destroy", "store"} /\ capacity_ >= 1 /\ Len(popped) >= 1) =>
          Slot(pop_pos) = (Slot(Wrap(pop_pos - 1)) + 1) % capacity_
    /\ ub \cap {"construct_over_live", "read_dead", "destroy_dead"} = {}
    /\ Len(popped) <= Len(pushed)
    /\ popped = SubSeq(pushed, 1, Len(popped))

\* the pops the producer knows of: those done, less the cached cursor's lag
PopsSeen == Len(popped) - Wrap(pop_pos_ - pop_pos_cached_)

\* C19: with cursors that wrap at 2^SizeBits and capacity_ < 2^SizeBits, the
\* wrapping subtractions give the true counts in every reachable state, before
\* and after either cursor has wrapped: push_pos_ - pop_pos_ (getSize) is the
\* number of successful pushes less the number of successful pops, and
\* push_pos_ - pop_pos_cached_ (push's test) is the number of successful pushes
\* less the number of pops the producer knows of; both lie in 0 .. capacity_.
C19_WrappingSubtraction ==
    /\ capacity_ < Modulus
    /\ getSize = Len(pushed) - Len(popped)
    /\ getSize \in 0 .. capacity_
    /\ Wrap(push_pos_ - pop_pos_cached_) = Len(pushed) - PopsSeen
    /\ Wrap(push_pos_ - pop_pos_cached_) \in 0 .. capacity_
    /\ ppc \in {"refresh", "construct", "store"} =>
          Wrap(push_pos - pop_pos_cached_) = Wrap(push_pos_ - pop_pos_cached_)

\* the queue is full, push_pos_ has wrapped, pop_pos_ and the cached cursor
\* have not, and a push is about to return false
C19_Witness ==
    /\ capacity_ = 2
    /\ ub = {}
    /\ push_pos_ < pop_pos_
    /\ pop_pos_cached_ > push_pos_
    /\ getSize = capacity_
    /\ Len(pushed) > Modulus
    /\ ppc = "refresh"

\* the slot a cursor addresses, if the queue has any
SlotOf(cursor) == IF capacity_ = 0 THEN {} ELSE {Slot(cursor)}

\* the slots a step changes
ChangedSlots == { s \in DOMAIN allocation_ : allocation_'[s] # allocation_[s] }

\* C20: what each operation writes.  Every step of push() leaves pop_pos_,
\* push_pos_cached_ and the consumer's output variable as they were and changes
\* at most one slot, the one push_pos addresses; every step of pop() leaves
\* push_pos_ and pop_pos_cached_ as they were and changes at most one slot, the
\* one pop_pos addresses; a push that returns true has raised push_pos_ by
\* exactly 1 (in its last step) and one that returns false has left it alone,
\* and the same for pop and pop_pos_; capacity_ never changes, and its value is
\* what getCapacity() returns.  getCapacity, getSize, isEmpty and isFull read
\* the state and write nothing: they are functions of the state.
C20_FrameEffects ==
    /\ [](getCapacity = capacity_ /\ Cardinality(DOMAIN allocation_) = capacity_)
    /\ [][ /\ capacity_' = capacity_
           /\ ppc' # ppc =>
                 /\ UNCHANGED <<pop_pos_, push_pos_cached_, cvalue>>
                 /\ ChangedSlots \subseteq SlotOf(push_pos)
                 /\ pop_pos_cached_' # pop_pos_cached_ => ppc = "refresh"
                 /\ IF ppc' = "idle" /\ pret' = "true"
                       THEN push_pos_' = Wrap(push_pos_ + 1)
                       ELSE push_pos_' = push_pos_
           /\ cpc' # cpc =>
                 /\ UNCHANGED <<push_pos_, pop_pos_cached_, pvalue>>
                 /\ ChangedSlots \subseteq SlotOf(pop_pos)
                 /\ push_pos_cached_' # push_pos_cached_ => cpc = "refresh"
                 /\ cvalue' # cvalue => cpc = "copy"
                 /\ IF cpc' = "idle" /\ cret' = "true"
                       THEN pop_pos_' = Wrap(pop_pos_ + 1)
                       ELSE pop_pos_' = pop_pos_
         ]_vars

\* a pop has returned true with a value of its own and a push has returned
\* true after it, both cached cursors refreshed on the way
C20_Witness ==
    /\ capacity_ = 1
    /\ pret = "true"
    /\ cret = "true"
    /\ ppc = "idle" /\ cpc = "idle"
    /\ push_pos_ = 3
    /\ pop_pos_ = 2
    /\ pop_pos_cached_ = 2
    /\ push_pos_cached_ = 2
    /\ cvalue # Raw

\* C22: a Fifo constructed with capacity c >= 1 starts with push_pos_ and
\* pop_pos_ at 0: before any call getSize() is 0 and isEmpty() holds, a pop
\* made before any push fails, and the first push writes slot 0.
C22_FreshFifo ==
    /\ (fifo_pret = "none" /\ fifo_cret = "none") =>
          /\ fifo_push_pos_ = 0
          /\ fifo_pop_pos_ = 0
          /\ FifoGetSize = 0
          /\ FifoIsEmpty
    /\ (fifo_pret = "none" /\ fifo_cret # "none") => fifo_cret = "false"
    /\ (fifo_pret = "true" /\ fifo_cret = "none") => fifo_allocation_[0] # Raw

\* C25: a SpscFifo2 constructed with capacity 0 is inert.  No push and no pop
\* on it returns true, isEmpty() and isFull() both hold at all times, no call
\* gets as far as a slot access, the destructor's loop body never runs, and
\* so 'cursor % capacity_' is never evaluated and nothing undefined happens.
C25_ZeroCapacityInert ==
    capacity_ = 0 =>
        /\ pret # "true"
        /\ cret # "true"
        /\ isEmpty
        /\ isFull
        /\ ppc \notin {"construct", "store"}
        /\ cpc \notin {"copy", "destroy", "store"}
        /\ dtorLog = <<>>
        /\ life # "crashed"
        /\ ub = {}
        /\ pushed = <<>> /\ popped = <<>>
        /\ DOMAIN allocation_ = {}

\* a push and a pop have returned false on a queue of capacity 0 and the queue
\* has been destroyed
C25_Witness ==
    /\ capacity_ = 0
    /\ pret = "false"
    /\ cret = "false"
    /\ life = "freed"

\* the step in which the producer's getSize() returns
PSizeReturn == psize.pc = "load_pop" /\ psize'.pc = "idle"

\* the step in which the consumer's getSize() returns
CSizeReturn == csize.pc = "load_pop" /\ csize'.pc = "idle"

\* the occupied counts the queue had between the start of a call of getSize()
\* and now: the calling thread's cursor stands still, the other moved from start
PSizeTrueCounts == { SizeOf(push_pos_, x) : x \in Visible(psize.start, pop_pos_) }
CSizeTrueCounts == { SizeOf(x, pop_pos_) : x \in Visible(csize.start, push_pos_) }

\* C23 as stated: getSize() called by the producer or by the consumer between
\* its own operations, the other thread running, returns a value in
\* 0 .. capacity_ that was the true occupied count at some instant during the
\* call.
C23_SizeTrueDuringCall ==
    [][ /\ PSizeReturn =>
              /\ psize'.ret \in 0 .. capacity_
              /\ psize'.ret \in PSizeTrueCounts
        /\ CSizeReturn =>
              /\ csize'.ret \in 0 .. capacity_
              /\ csize'.ret \in CSizeTrueCounts
      ]_vars

\* C23, amended: getSize() loads push_pos_ first and pop_pos_ second, and
\* called by the producer or by the consumer between its own operations it
\* returns a value in 0 .. capacity_.  The value is the caller's own cursor
\* against a value the other cursor has held, which may be older than the call:
\* the producer's result is never below the true occupied count at its return,
\* the consumer's never above it, and the result is the true count at the
\* instant of the load of the other thread's cursor when that load returns the
\* cursor's current value.
C23_SizeWithinBounds ==
    [][ /\ psize'.pc = "load_pop" => psize.pc \in {"load_push", "load_pop"}
        /\ csize'.pc = "load_pop" => csize.pc \in {"load_push", "load_pop"}
        /\ PSizeReturn =>
              /\ psize'.ret \in 0 .. capacity_
              /\ psize'.ret = SizeOf(push_pos_, seenPop')
              /\ seenPop' \in Visible(seenPop, pop_pos_)
              /\ psize'.ret >= getSize
              /\ seenPop' = pop_pos_ => psize'.ret = getSize
        /\ (csize.pc = "load_push" /\ csize'.pc = "load_pop") =>
              /\ csize'.push_pos \in Visible(seenPush, push_pos_)
              /\ SizeOf(csize'.push_pos, pop_pos_) \in 0 .. capacity_
              /\ csize'.push_pos = push_pos_ => SizeOf(csize'.push_pos, pop_pos_) = getSize
        /\ CSizeReturn =>
              /\ csize'.ret \in 0 .. capacity_
              /\ csize'.ret = SizeOf(csize.push_pos, pop_pos_)
              /\ csize'.ret <= getSize
      ]_vars

\* the producer's getSize() has returned 1 and the consumer's 0 while the queue
\* of capacity 1 held no element, then one element, all through both calls
C23_Witness ==
    /\ capacity_ = 1
    /\ psize.ret = 1
    /\ csize.ret = 0
    /\ ppc = "idle" /\ cpc = "idle"
    /\ Len(pushed) = 2
    /\ Len(popped) = 1
    /\ getSize = 1

\* C24: if the producer observes isFull() false, its next push returns true,
\* and if the consumer observes isEmpty() false, its next pop returns true,
\* whatever the other thread does in between and whatever the cached cursors
\* hold.
C24_QueriesReliable ==
    [][ /\ (ppc # "idle" /\ ppc' = "idle" /\ psize.ret # Raw /\ psize.ret # capacity_)
              => pret' = "true"
        /\ (cpc # "idle" /\ cpc' = "idle" /\ csize.ret # Raw /\ csize.ret # 0)
              => cret' = "true"
      ]_vars

\* on a queue of capacity 2 the producer saw one element (not full) and the
\* consumer saw one element (not empty), and the push and the pop that
\* followed are both about to return true
C24_Witness ==
    /\ capacity_ = 2
    /\ psize.ret = 1
    /\ ppc = "store"
    /\ push_pos = 3
    /\ pop_pos_cached_ = 2
    /\ csize.ret = 1
    /\ cpc = "store"
    /\ pop_pos = 2
    /\ push_pos_cached_ = 3

\* C21 (refinement_equivalence): SpscFifo2 and SpscFifo1 produce the same
\* histories.  Run side by side under one schedule, whichever of the two
\* chooses what its loads return, the other can follow: its own load may
\* return the value needed (Follows), the two calls stay at the same place
\* (Aligned), and the queues, the results of the calls, the values popped and
\* the histories stay equal (SameOutcome).  So SpscFifo2 accepts no push or pop
\* that SpscFifo1 would have to reject.  With one thread making all the calls,
\* SpscFifo0 gives the same results too (SameAsSpsc0).
PushAligned ==
    CASE prod1.pc = "idle" -> ppc = "idle"
      [] prod1.pc = "load_own" -> ppc = "load"
      [] prod1.pc = "load_pop" -> ppc \in {"refresh", "construct"}
      [] prod1.pc = "construct" -> ppc = "construct"
      [] prod1.pc = "store" -> ppc = "store"
      [] OTHER -> FALSE

PopAligned ==
    CASE cons1.pc = "idle" -> cpc = "idle"
      [] cons1.pc = "load_push" -> cpc \in {"load", "refresh", "copy"}
      [] cons1.pc = "load_own" ->
             IF Pop1IsEmpty(cons1.push_pos, fifo1.pop_pos_) THEN cpc = "idle" ELSE cpc = "copy"
      [] cons1.pc = "copy" -> cpc = "copy"
      [] cons1.pc = "destroy" -> cpc = "destroy"
      [] cons1.pc = "store" -> cpc = "store"
      [] OTHER -> FALSE

PushFollows ==
    prod1.pc = "load_pop" =>
        CASE mode = "spsc1_leads" ->
                 ppc = "refresh" =>
                     Visible(prod1.seen, fifo1.pop_pos_) \subseteq Visible(seenPop, pop_pos_)
          [] mode = "spsc2_leads" ->
                 IF ppc = "refresh"
                    THEN Visible(seenPop, pop_pos_) \subseteq Visible(prod1.seen, fifo1.pop_pos_)
                    ELSE pop_pos_cached_ \in Visible(prod1.seen, fifo1.pop_pos_)
          [] OTHER -> TRUE

PopFollows ==
    (cons1.pc = "load_push" /\ cpc # "load") =>
        CASE mode = "spsc1_leads" ->
                 cpc = "refresh" =>
                     Visible(cons1.seen, fifo1.push_pos_) \subseteq Visible(seenPush, push_pos_)
          [] mode = "spsc2_leads" ->
                 IF cpc = "refresh"
                    THEN Visible(seenPush, push_pos_) \subseteq Visible(cons1.seen, fifo1.push_pos_)
                    ELSE push_pos_cached_ \in Visible(cons1.seen, fifo1.push_pos_)
          [] OTHER -> TRUE

SameOutcome ==
    /\ fifo1.push_pos_ = push_pos_
    /\ fifo1.pop_pos_ = pop_pos_
    /\ fifo1.allocation_ = allocation_
    /\ hist1.pushed = pushed
    /\ hist1.popped = popped
    /\ hist1.ub = ub
    /\ life = "alive"
    /\ prod1.pc = "idle" => prod1.ret = pret
    /\ cons1.pc = "idle" => (cons1.ret = cret /\ cons1.value = cvalue)

SameAsSpsc0 ==
    (mode = "single" /\ BetweenCalls) =>
        /\ prod0.ret = pret
        /\ cons0.ret = cret
        /\ cons0.value = cvalue
        /\ hist0.pushed = pushed
        /\ hist0.popped = popped
        /\ hist0.ub = ub
        /\ fifo0.allocation_ = allocation_
        /\ Spsc0GetSize(fifo0.push_pos_, fifo0.pop_pos_) = Wrap(push_pos_ - pop_pos_)

C21_SameHistories ==
    mode \in Modes =>
        /\ PushAligned
        /\ PopAligned
        /\ PushFollows
        /\ PopFollows
        /\ SameOutcome
        /\ SameAsSpsc0

\* SpscFifo2 leads and goes on with a push on its cached cursor, which is behind
\* the consumer's; SpscFifo1's load has returned that same value and its push
\* is at the same place, after two elements were popped from both queues.
C21_Witness ==
    /\ mode = "spsc2_leads"
    /\ ppc = "store" /\ prod1.pc = "store"
    /\ pop_pos_cached_ # pop_pos_
    /\ prod1.pop_pos = pop_pos_cached_
    /\ Len(popped) = 2 /\ hist1.popped = popped

====
